---- MODULE Spec2Model ----
(***************************************************************************)
(* A model of brew-compat (src/check.py): the Brewfile reader              *)
(* (get_formulae), the version resolver (get_supported_versions), the      *)
(* evaluator (get_status), the reporters (display, export) and the driver  *)
(* (cli).                                                                  *)
(*                                                                         *)
(* Representation.  A line of the Brewfile is a sequence of one-character  *)
(* strings, so that str.startswith and re.search act on characters.  A     *)
(* JSON value is a record tagged by its Python type ("dict", "list",       *)
(* "str", "null"); a body that is not JSON at all has the tag "invalid".   *)
(* The result of a Python expression that may raise is a record            *)
(* [exc |-> "none", v |-> value] or [exc |-> <exception name>].            *)
(***************************************************************************)
EXTENDS Integers, Sequences, FiniteSets, TLC

\* Longest Brewfile explored, in lines.
MaxLines == 2

----------------------------------------------------------------------------
(* Module-level constants, check.py lines 21-38.                           *)

macos_versions ==
    <<"arm64_big_sur", "big_sur", "catalina", "mojave", "high_sierra",
      "sierra", "el_capitan">>

support_matrix ==
    (">=11.0"  :> <<"arm64big_sur", "big_sur">>) @@
    (">=10.16" :> <<"arm64big_sur", "big_sur">>) @@
    (">=10.15" :> <<"arm64big_sur", "big_sur", "catalina">>) @@
    (">=10.14" :> <<"arm64big_sur", "big_sur", "catalina", "mojave">>) @@
    (">=10.13" :> <<"arm64big_sur", "big_sur", "catalina", "mojave",
                    "high_sierra">>) @@
    (">=10.12" :> <<"arm64big_sur", "big_sur", "catalina", "mojave",
                    "high_sierra", "sierra">>) @@
    (">=10.11" :> <<"arm64big_sur", "big_sur", "catalina", "mojave",
                    "high_sierra", "el_capitan">>)

metadata ==
    [brew |-> "https://formulae.brew.sh/api/formula",
     cask |-> "https://formulae.brew.sh/api/cask"]

\* The header row export() writes.
csv_header == <<"kind", "formula", "status">>

----------------------------------------------------------------------------
(* Strings as character sequences.                                         *)

Range(s) == {s[k] : k \in 1..Len(s)}

Q == "\""

NL == "\n"

\* The characters of a formula type, for str.startswith.
Chars(formula_type) ==
    CASE formula_type = "brew" -> <<"b", "r", "e", "w">>
      [] formula_type = "cask" -> <<"c", "a", "s", "k">>
      [] formula_type = "tap"  -> <<"t", "a", "p">>

\* line.startswith(prefix)
startswith(line, prefix) ==
    /\ Len(line) >= Len(prefix)
    /\ SubSeq(line, 1, Len(prefix)) = prefix

\* re.search(pattern, line) for pattern = r'\"(.+?)\"': the leftmost opening
\* quote that some later quote closes with at least one character between
\* them, none of them a newline ('.' does not match "\n"); the lazy '+?'
\* stops at the nearest such closing quote.  <<>> is Python's None, else
\* <<start, end>>.
re_search(line) ==
    LET closes(a, b) ==
            /\ b >= a + 2
            /\ line[b] = Q
            /\ \A k \in (a + 1)..(b - 1) : line[k] # NL
        starts == {a \in 1..Len(line) :
                     line[a] = Q /\ \E b \in 1..Len(line) : closes(a, b)}
    IN IF starts = {}
       THEN <<>>
       ELSE LET a == CHOOSE x \in starts : \A y \in starts : x <= y
                b == CHOOSE x \in {y \in 1..Len(line) : closes(a, y)} :
                        \A y \in {z \in 1..Len(line) : closes(a, z)} : x <= y
            IN <<a, b>>

\* match.group().replace('"', "")
strip_quotes(s) == SelectSeq(s, LAMBDA c : c # Q)

----------------------------------------------------------------------------
(* get_formulae, check.py lines 41-62.                                     *)

Raise(e) == [exc |-> e]

Return(v) == [exc |-> "none", v |-> v]

\* Line 49 left out: any formula_type is read.
is_supported_type_any(formula_type) == TRUE

\* Line 49: formula_type in metadata.keys()
is_supported_type(formula_type) == formula_type \in DOMAIN metadata

\* Line 56: line.startswith(formula_type)
line_matches(line, formula_type) == startswith(line, Chars(formula_type))

\* Lines 58-60: the name a matching line declares, <<>> when re.search
\* finds no match.
formula_name_of(line) ==
    LET match == re_search(line)
    IN IF match = <<>>
       THEN <<>>
       ELSE <<strip_quotes(SubSeq(line, match[1], match[2]))>>

\* Lines 53-62 with each name put at the front of formulae.
RECURSIVE read_lines_reversed(_, _)
read_lines_reversed(lines, formula_type) ==
    IF lines = <<>>
    THEN <<>>
    ELSE LET line == Head(lines)
             rest == read_lines_reversed(Tail(lines), formula_type)
         IN IF line_matches(line, formula_type)
            THEN rest \o formula_name_of(line)
            ELSE rest

\* Lines 53-62: the loop over f.readlines().
RECURSIVE read_lines(_, _)
read_lines(lines, formula_type) ==
    IF lines = <<>>
    THEN <<>>
    ELSE LET line == Head(lines)
             rest == read_lines(Tail(lines), formula_type)
         IN IF line_matches(line, formula_type)
            THEN formula_name_of(line) \o rest
            ELSE rest

\* The whole call.  path_kind is what the path names on disk: "file",
\* "dir" or "missing"; open() raises for the last two.
get_formulae(path_kind, lines, formula_type) ==
    IF ~is_supported_type(formula_type)
    THEN Raise("SystemExit")
    ELSE IF path_kind = "missing"
    THEN Raise("FileNotFoundError")
    ELSE IF path_kind = "dir"
    THEN Raise("IsADirectoryError")
    ELSE Return(read_lines(lines, formula_type))

----------------------------------------------------------------------------
(* JSON values and the Python operations get_supported_versions applies    *)
(* to them.                                                                *)

JNull == [t |-> "null"]

JStr(s) == [t |-> "str", s |-> s]

JList(items) == [t |-> "list", items |-> items]

JDict(d) == [t |-> "dict", d |-> d]

NotJson == [t |-> "invalid"]

EmptyDict == JDict([k \in {} |-> JNull])

\* r[key] for a string key, r the result of the expression before it.
Subscript(r, key) ==
    IF r.exc # "none"
    THEN r
    ELSE CASE r.v.t = "dict" ->
                 IF key \in DOMAIN r.v.d THEN Return(r.v.d[key])
                                         ELSE Raise("KeyError")
           [] r.v.t = "list" -> Raise("TypeError")
           [] r.v.t = "str"  -> Raise("TypeError")
           [] r.v.t = "null" -> Raise("TypeError")

\* r[0].  A dict has only string keys here, so d[0] is a KeyError.  A str
\* subscripted by 0 is its first character, which no body below reaches.
Subscript0(r) ==
    IF r.exc # "none"
    THEN r
    ELSE CASE r.v.t = "list" ->
                 IF r.v.items # <<>> THEN Return(r.v.items[1])
                                     ELSE Raise("IndexError")
           [] r.v.t = "dict" -> Raise("KeyError")
           [] r.v.t = "str"  -> Raise("IndexError")
           [] r.v.t = "null" -> Raise("TypeError")

\* r.keys()
Keys(r) ==
    IF r.exc # "none"
    THEN r
    ELSE IF r.v.t = "dict" THEN Return(DOMAIN r.v.d)
                           ELSE Raise("AttributeError")

\* "{}".format(x): a str is itself, None is "None"; containers print as
\* their repr, which is no version number.
Format(x) ==
    CASE x.t = "str"  -> x.s
      [] x.t = "null" -> "None"
      [] OTHER        -> "<repr>"

----------------------------------------------------------------------------
(* get_supported_versions, check.py lines 65-83.  The versions are used    *)
(* only for membership (line 121), so the dict view of line 77 and the     *)
(* list of line 82 are both given as the set of their elements.            *)

\* Line 77 reading data["bottle"]["files"].
brew_versions_no_stable(data) ==
    Keys(Subscript(Subscript(Return(data), "bottle"), "files"))

\* Line 77
brew_versions(data) ==
    Keys(Subscript(Subscript(Subscript(Return(data), "bottle"), "stable"),
                   "files"))

\* Line 81 without the ">=" in front of the version.
depends_on_of_bare(data) ==
    LET first ==
          Subscript0(Subscript(Subscript(Subscript(Return(data), "depends_on"),
                                         "macos"), ">="))
    IN IF first.exc # "none" THEN first ELSE Return(Format(first.v))

\* Line 81
depends_on_of(data) ==
    LET first ==
          Subscript0(Subscript(Subscript(Subscript(Return(data), "depends_on"),
                                         "macos"), ">="))
    IN IF first.exc # "none" THEN first ELSE Return(">=" \o Format(first.v))

\* Lines 81-82
cask_versions(data) ==
    LET depends_on == depends_on_of(data)
    IN IF depends_on.exc # "none"
       THEN depends_on
       ELSE IF depends_on.v \in DOMAIN support_matrix
       THEN Return(Range(support_matrix[depends_on.v]))
       ELSE Raise("KeyError")

get_supported_versions(data, formula_type) ==
    CASE formula_type = "brew" -> brew_versions(data)
      [] formula_type = "cask" -> cask_versions(data)
      [] OTHER                 -> Return({})

\* get_type, check.py lines 86-97.
get_type(formula_type) ==
    CASE formula_type = "brew" -> "Bottle"
      [] formula_type = "cask" -> "Application"
      [] OTHER                 -> "Unknown"

SupportStatus(kind, formula_name, status) ==
    [kind |-> kind, formula_name |-> formula_name, status |-> status]

----------------------------------------------------------------------------
(* One iteration of get_status's loop once requests.get has returned,      *)
(* check.py lines 116-131.                                                 *)

\* Line 116 as "anything but 404".
is_found_not_404(status_code) == status_code # 404

\* Line 116
is_found(status_code) == status_code = 200

Unresolved == [known |-> FALSE, v |-> {}]

Resolved(versions) == [known |-> TRUE, v |-> versions]

\* Lines 118-127: the try block and its except KeyError.  Any other
\* exception leaves get_status.
check_versions(content, formula_type, target) ==
    LET supported == get_supported_versions(content, formula_type)
    IN CASE supported.exc = "none" ->
              [exc |-> "none",
               status |-> IF target \in supported.v THEN "Supported"
                                                    ELSE "Unsupported",
               versions |-> Resolved(supported.v)]
         [] supported.exc = "KeyError" ->
              [exc |-> "none", status |-> "No info", versions |-> Unresolved]
         [] OTHER ->
              [exc |-> supported.exc, status |-> "", versions |-> Unresolved]

\* Lines 116-131.  parsed: whether response.json() was called.
handle_response(resp, formula_type, target) ==
    IF is_found(resp.status_code)
    THEN IF resp.body.t = "invalid"
         THEN [exc |-> "JSONDecodeError", status |-> "",
               versions |-> Unresolved, parsed |-> TRUE]
         ELSE check_versions(resp.body, formula_type, target)
                  @@ [parsed |-> TRUE]
    ELSE [exc |-> "none", status |-> "Unknown", versions |-> Unresolved,
          parsed |-> FALSE]

----------------------------------------------------------------------------
(* The inputs explored.                                                    *)

\* Brewfile lines, as f.readlines() returns them.
LineBrewA == <<"b", "r", "e", "w", " ", Q, "a", Q, NL>>

LineCaskB == <<"c", "a", "s", "k", " ", Q, "b", Q, NL>>

LineCaskArgs ==
    <<"c", "a", "s", "k", "_", "a", "r", "g", "s", " ",
      "a", "p", "p", "d", "i", "r", ":", " ", Q, "/", "A", Q, NL>>

LineBrewfoo == <<"b", "r", "e", "w", "f", "o", "o", " ", Q, "x", Q, NL>>

LineBrewNoQuote == <<"b", "r", "e", "w", " ", "w", "g", "e", "t", NL>>

LineTap == <<"t", "a", "p", " ", Q, "h", Q, NL>>

Lines ==
    {LineBrewA, LineCaskB, LineCaskArgs, LineBrewfoo, LineBrewNoQuote, LineTap}

Brewfiles == UNION {[1..n -> Lines] : n \in 0..MaxLines}

\* Formula bodies: a stable bottle with files for the given versions.
FilesBody(versions) ==
    JDict("bottle" :> JDict("stable" :>
        JDict("files" :> JDict([v \in versions |-> JStr("sha256")]))))

\* Cask bodies: depends_on.macos.">=" holding the given list.
CaskBody(list) ==
    JDict("depends_on" :> JDict("macos" :> JDict(">=" :> JList(list))))

CaskMinimums ==
    {"11.0", "10.16", "10.15", "10.14", "10.13", "10.12", "10.11",
     "10.10"}

Bodies ==
    {FilesBody({"big_sur", "catalina"}),
     FilesBody({"arm64_big_sur", "mojave", "high_sierra", "sierra",
                "el_capitan"}),
     FilesBody({}),
     JDict("name" :> JStr("partial")),
     JDict("bottle" :> EmptyDict),
     JDict("bottle" :> JDict("stable" :> JDict("rebuild" :> JStr("0")))),
     JDict("bottle" :> JNull),
     JDict("depends_on" :> EmptyDict),
     JDict("depends_on" :> JDict("macos" :>
         JDict("==" :> JList(<<JStr("10.14")>>)))),
     JDict("depends_on" :> JNull),
     CaskBody(<<>>),
     CaskBody(<<JNull>>),
     NotJson}
    \cup {CaskBody(<<JStr(m)>>) : m \in CaskMinimums}

\* Bodies sent with an error status.
ErrorBodies == {FilesBody({"big_sur", "catalina"}),
                CaskBody(<<JStr("10.14")>>), NotJson}

HttpResponse(status_code, body) ==
    [t |-> "http", status_code |-> status_code, body |-> body]

NoResponse == [t |-> "none", status_code |-> 0, body |-> JNull]

Responses ==
    {HttpResponse(200, b) : b \in Bodies}
        \cup {HttpResponse(c, b) : c \in {301, 404, 500}, b \in ErrorBodies}

----------------------------------------------------------------------------
(* The state of a run.                                                     *)

VARIABLES
    entry,              \* "cli", or "get_formulae" for a call of it alone
    type_arg,           \* the formula_type of a call of get_formulae alone
    path_kind,          \* what args.brewfile names: "file", "dir", "missing"
    brewfile,           \* the lines of that file
    macos_version,      \* args.macos_version
    export_flag,        \* args.export
    pc,                 \* the statement the run is at
    core_formulae,      \* cli's core_formulae
    cask_formulae,      \* cli's cask_formulae
    returned,           \* what a call of get_formulae alone returned
    formula_type,       \* get_status's formula_type
    i,                  \* get_status: 1 + the formulae the loop is done with
    statuses,           \* get_status's statuses
    result,             \* cli's result
    requests,           \* every endpoint requests.get was called with
    in_flight,          \* a request is sent and not answered
    received,           \* the requests.get calls that have ended
    response,           \* get_status's response
    parsed,             \* response.json() was called on it
    supported_versions, \* get_status's supported_versions
    stdout,             \* the rows display() printed
    csv_file,           \* the rows export() wrote to export_file
    exception,          \* the exception that ended the run, or "none"
    exit_code           \* the exit code, -1 while running

vars ==
    <<entry, type_arg, path_kind, brewfile, macos_version, export_flag, pc,
      core_formulae, cask_formulae, returned, formula_type, i, statuses,
      result, requests, in_flight, received, response, parsed, supported_versions, stdout,
      csv_file, exception, exit_code>>

args == <<entry, type_arg, path_kind, brewfile, macos_version, export_flag>>

NotWritten == [written |-> FALSE, rows |-> <<>>]

Written(rows) == [written |-> TRUE, rows |-> rows]

Init ==
    /\ entry \in {"cli", "get_formulae"}
    /\ path_kind \in {"file", "dir", "missing"}
    /\ brewfile \in IF path_kind = "file" THEN Brewfiles ELSE {<<>>}
    /\ IF entry = "cli"
       THEN /\ type_arg = "none"
            /\ macos_version \in Range(macos_versions)
            /\ export_flag \in BOOLEAN
       ELSE /\ type_arg \in {"brew", "cask", "tap"}
            /\ macos_version = "big_sur"
            /\ export_flag = FALSE
    /\ pc = entry
    /\ core_formulae = <<>>
    /\ cask_formulae = <<>>
    /\ returned = <<>>
    /\ formula_type = "none"
    /\ i = 1
    /\ statuses = <<>>
    /\ result = <<>>
    /\ requests = <<>>
    /\ in_flight = FALSE
    /\ received = 0
    /\ response = NoResponse
    /\ parsed = FALSE
    /\ supported_versions = Unresolved
    /\ stdout = NotWritten
    /\ csv_file = NotWritten
    /\ exception = "none"
    /\ exit_code = -1

----------------------------------------------------------------------------
(* The steps of a run.                                                     *)

\* The run ends with an uncaught exception or sys.exit(1): exit code 1.
Abort(e) ==
    /\ pc' = "exit"
    /\ exception' = e
    /\ exit_code' = 1

\* The formulae get_status was called with, check.py lines 189 and 190.
Formulae == IF formula_type = "brew" THEN core_formulae ELSE cask_formulae

InGetStatus == pc = "get_status"

\* Line 112
Endpoint(kind, formula_name) ==
    [base |-> metadata[kind], name |-> formula_name]

\* cli, lines 176-178: sys.exit(1) when the Brewfile does not exist.
CheckBrewfile ==
    /\ pc = "cli"
    /\ IF path_kind = "missing"
       THEN Abort("SystemExit")
       ELSE pc' = "read_core" /\ UNCHANGED <<exception, exit_code>>
    /\ UNCHANGED <<args, core_formulae, cask_formulae, returned, formula_type, i, statuses,
                   result, requests, in_flight, received, response, parsed,
                   supported_versions, stdout, csv_file>>

\* cli, line 185
ReadCore ==
    /\ pc = "read_core"
    /\ LET r == get_formulae(path_kind, brewfile, "brew")
       IN IF r.exc = "none"
          THEN /\ core_formulae' = r.v
               /\ pc' = "read_cask"
               /\ UNCHANGED <<exception, exit_code>>
          ELSE Abort(r.exc) /\ UNCHANGED core_formulae
    /\ UNCHANGED <<args, cask_formulae, returned, formula_type, i, statuses, result,
                   requests, in_flight, received, response, parsed,
                   supported_versions, stdout, csv_file>>

\* cli, line 186, up to the call of get_status on line 189 (line 108).
ReadCask ==
    /\ pc = "read_cask"
    /\ LET r == get_formulae(path_kind, brewfile, "cask")
       IN IF r.exc = "none"
          THEN /\ cask_formulae' = r.v
               /\ formula_type' = "brew"
               /\ pc' = "get_status"
               /\ UNCHANGED <<exception, exit_code>>
          ELSE Abort(r.exc) /\ UNCHANGED <<cask_formulae, formula_type>>
    /\ UNCHANGED <<args, core_formulae, returned, i, statuses, result,
                   requests, in_flight, received, response, parsed,
                   supported_versions, stdout, csv_file>>

\* get_formulae called on its own with any formula_type.
CallGetFormulae ==
    /\ pc = "get_formulae"
    /\ LET r == get_formulae(path_kind, brewfile, type_arg)
       IN IF r.exc = "none"
          THEN /\ returned' = r.v
               /\ pc' = "returned"
               /\ UNCHANGED <<exception, exit_code>>
          ELSE Abort(r.exc) /\ UNCHANGED returned
    /\ UNCHANGED <<args, core_formulae, cask_formulae, formula_type, i,
                   statuses, result, requests, in_flight, received, response,
                   parsed, supported_versions, stdout, csv_file>>

\* get_status, lines 110-114: the next formula's request is sent.
Request ==
    /\ InGetStatus
    /\ ~in_flight
    /\ i <= Len(Formulae)
    /\ requests' = Append(requests, Endpoint(formula_type, Formulae[i]))
    /\ in_flight' = TRUE
    /\ UNCHANGED <<args, pc, core_formulae, cask_formulae, returned, formula_type, i,
                   statuses, result, received, response, parsed,
                   supported_versions, stdout, csv_file, exception, exit_code>>

\* get_status, line 114: requests.get raises (no connection, a timeout of
\* the transport, ...); nothing catches it.
RequestFails ==
    /\ InGetStatus
    /\ in_flight
    /\ in_flight' = FALSE
    /\ received' = received + 1
    /\ response' = NoResponse
    /\ parsed' = FALSE
    /\ supported_versions' = Unresolved
    /\ Abort("ConnectionError")
    /\ UNCHANGED <<args, core_formulae, cask_formulae, returned, formula_type, i, statuses,
                   result, requests, stdout, csv_file>>

\* get_status, lines 114-132: requests.get returns and the formula is
\* classified.
Respond ==
    /\ InGetStatus
    /\ in_flight
    /\ \E resp \in Responses :
         LET h == handle_response(resp, formula_type, macos_version)
         IN /\ response' = resp
            /\ parsed' = h.parsed
            /\ supported_versions' = h.versions
            /\ IF h.exc = "none"
               THEN /\ statuses' = Append(statuses,
                          SupportStatus(get_type(formula_type), Formulae[i],
                                        h.status))
                    /\ i' = i + 1
                    /\ UNCHANGED <<pc, exception, exit_code>>
               ELSE /\ Abort(h.exc)
                    /\ UNCHANGED <<statuses, i>>
    /\ in_flight' = FALSE
    /\ received' = received + 1
    /\ UNCHANGED <<args, core_formulae, cask_formulae, returned, formula_type,
                   result, requests, stdout, csv_file>>

\* cli, line 189: get_status returns the core statuses; line 190 calls it
\* for the casks (line 108).
ReturnCore ==
    /\ InGetStatus
    /\ formula_type = "brew"
    /\ ~in_flight
    /\ i > Len(core_formulae)
    /\ result' = statuses
    /\ statuses' = <<>>
    /\ i' = 1
    /\ response' = NoResponse
    /\ parsed' = FALSE
    /\ supported_versions' = Unresolved
    /\ formula_type' = "cask"
    /\ UNCHANGED <<args, pc, core_formulae, cask_formulae, returned, requests,
                   in_flight, received, stdout, csv_file, exception,
                   exit_code>>

\* cli, lines 190-191: get_status returns the cask statuses, which extend
\* result.
ReturnCask ==
    /\ InGetStatus
    /\ formula_type = "cask"
    /\ ~in_flight
    /\ i > Len(cask_formulae)
    /\ result' = result \o statuses
    /\ statuses' = <<>>
    /\ i' = 1
    /\ response' = NoResponse
    /\ parsed' = FALSE
    /\ supported_versions' = Unresolved
    /\ pc' = "display"
    /\ UNCHANGED <<args, core_formulae, cask_formulae, returned, formula_type,
                   requests,
                   in_flight, received, stdout, csv_file, exception,
                   exit_code>>

\* The row display() and export() make of a status, lines 145 and 160.
Row(s) == <<s.kind, s.formula_name, s.status>>

Rows(support_statuses) ==
    [k \in 1..Len(support_statuses) |-> Row(support_statuses[k])]

\* display, lines 136-147: the table, its field names first.
display(support_statuses) ==
    Written(<<<<"Kind", "Formula", "Status">>>> \o Rows(support_statuses))

\* export, lines 150-160.
export(support_statuses) ==
    Written(<<csv_header>> \o Rows(support_statuses))

\* cli, line 193
Display ==
    /\ pc = "display"
    /\ stdout' = display(result)
    /\ pc' = "export"
    /\ UNCHANGED <<args, core_formulae, cask_formulae, returned, formula_type, i, statuses,
                   result, requests, in_flight, received, response, parsed,
                   supported_versions, csv_file, exception, exit_code>>

\* cli, lines 195-199; the run ends with exit code 0.
Export ==
    /\ pc = "export"
    /\ csv_file' = IF export_flag THEN export(result) ELSE csv_file
    /\ pc' = "done"
    /\ exit_code' = 0
    /\ UNCHANGED <<args, core_formulae, cask_formulae, returned, formula_type, i, statuses,
                   result, requests, in_flight, received, response, parsed,
                   supported_versions, stdout, exception>>

Next ==
    \/ CheckBrewfile
    \/ ReadCore
    \/ ReadCask
    \/ CallGetFormulae
    \/ Request
    \/ RequestFails
    \/ Respond
    \/ ReturnCore
    \/ ReturnCask
    \/ Display
    \/ Export

Spec == Init /\ [][Next]_vars

----------------------------------------------------------------------------
(* Vocabulary of the claims.                                               *)

Last(s) == s[Len(s)]

IsPrefix(s, t) == Len(s) <= Len(t) /\ SubSeq(t, 1, Len(s)) = s

Count(s, x) == Cardinality({k \in 1..Len(s) : s[k] = x})

\* Every element of s occurs in t at least as often as in s.
OnlyFrom(s, t) == \A k \in 1..Len(s) : Count(s, s[k]) <= Count(t, s[k])

\* The value under a path of keys: "found" with the value, "absent" when a
\* mapping on the way lacks the next key, "malformed" when a value on the
\* way is not a mapping.
RECURSIVE Dig(_, _)
Dig(value, path) ==
    IF path = <<>>
    THEN [at |-> "found", v |-> value]
    ELSE IF value.t # "dict"
    THEN [at |-> "malformed", v |-> JNull]
    ELSE IF Head(path) \notin DOMAIN value.d
    THEN [at |-> "absent", v |-> JNull]
    ELSE Dig(value.d[Head(path)], Tail(path))

\* The stable-bottle file listing of a formula body.
Listing(body) == Dig(body, <<"bottle", "stable", "files">>)

HasListing(body) == Listing(body).at = "found" /\ Listing(body).v.t = "dict"

\* The minimum-version list of a cask body, and the constraint it declares.
MinimumList(body) == Dig(body, <<"depends_on", "macos", ">=">>)

HasConstraint(body) ==
    /\ MinimumList(body).at = "found"
    /\ MinimumList(body).v.t = "list"
    /\ MinimumList(body).v.items # <<>>
    /\ MinimumList(body).v.items[1].t = "str"

Constraint(body) == ">=" \o MinimumList(body).v.items[1].s

\* The first word of a line: its characters before the first one that is
\* no letter and no underscore.
Separators == {" ", Q, NL, ":", "/"}

FirstWord(line) ==
    LET stops == {k \in 1..Len(line) : line[k] \in Separators}
    IN IF stops = {}
       THEN line
       ELSE SubSeq(line, 1, (CHOOSE k \in stops : \A m \in stops : k <= m) - 1)

\* The first double-quoted token of a line, <<>> when it has none.
QuotedToken(line) ==
    LET quotes == {k \in 1..Len(line) : line[k] = Q}
        first == CHOOSE k \in quotes : \A m \in quotes : k <= m
        later == {k \in quotes : k > first + 1}
    IN IF quotes = {} \/ later = {}
       THEN <<>>
       ELSE SubSeq(line, first + 1,
                   (CHOOSE k \in later : \A m \in later : k <= m) - 1)

\* A line declares a package of a kind when its first word is the kind's
\* keyword and a quoted token follows.
Declares(line, kind) ==
    FirstWord(line) = Chars(kind) /\ QuotedToken(line) # <<>>

\* The names the Brewfile declares for a kind, in the order of its lines.
RECURSIVE DeclaredIn(_, _)
DeclaredIn(lines, kind) ==
    IF lines = <<>>
    THEN <<>>
    ELSE (IF Declares(Head(lines), kind) THEN <<QuotedToken(Head(lines))>>
                                         ELSE <<>>)
             \o DeclaredIn(Tail(lines), kind)

\* The lookups of the lines the reader takes for brew or cask lines, in the
\* order of the lines.
RECURSIVE LookupsInLineOrder(_)
LookupsInLineOrder(lines) ==
    IF lines = <<>>
    THEN <<>>
    ELSE LET line == Head(lines)
             kinds == {k \in DOMAIN metadata : line_matches(line, k)}
             name == formula_name_of(line)
         IN (IF kinds = {} \/ name = <<>>
             THEN <<>>
             ELSE <<Endpoint(CHOOSE k \in kinds : TRUE, name[1])>>)
                \o LookupsInLineOrder(Tail(lines))

OfKind(lookups, kind) ==
    SelectSeq(lookups, LAMBDA e : e.base = metadata[kind])

\* The macOS release an identifier names, as the minor version 10.x; Big
\* Sur (10.16, also written 11.0) counts as 16 on both architectures.
OsRelease(id) ==
    CASE id = "el_capitan"    -> 11
      [] id = "sierra"        -> 12
      [] id = "high_sierra"   -> 13
      [] id = "mojave"        -> 14
      [] id = "catalina"      -> 15
      [] id = "big_sur"       -> 16
      [] id = "arm64_big_sur" -> 16
      [] OTHER                -> 0

\* The release a constraint of the support matrix asks for.
MinimumRelease(constraint) ==
    CASE constraint = ">=10.11" -> 11
      [] constraint = ">=10.12" -> 12
      [] constraint = ">=10.13" -> 13
      [] constraint = ">=10.14" -> 14
      [] constraint = ">=10.15" -> 15
      [] constraint = ">=10.16" -> 16
      [] constraint = ">=11.0"  -> 16

Satisfying(constraint) ==
    {id \in Range(macos_versions) : OsRelease(id) >= MinimumRelease(constraint)}

\* get_status has a response for the formula before position i, whether
\* it then classified it or raised.
Answered == response.t = "http"

AnsweredOk(kind) ==
    Answered /\ formula_type = kind /\ response.status_code = 200

\* The record of the formula the response is for is the last of statuses
\* and has the given status.
Recorded(status) ==
    /\ pc = "get_status"
    /\ exception = "none"
    /\ i = Len(statuses) + 1
    /\ i - 1 \in 1..Len(Formulae)
    /\ Last(statuses) =
           SupportStatus(get_type(formula_type), Formulae[i - 1], status)

StatusNames == {"Supported", "Unsupported", "No info", "Unknown"}

\* One record per name, in order, each with a status of the enumeration.
RecordsFor(records, names) ==
    /\ Len(records) = Len(names)
    /\ \A k \in 1..Len(records) :
         /\ records[k].formula_name = names[k]
         /\ records[k].status \in StatusNames

----------------------------------------------------------------------------
(* The claims.                                                             *)

\* The response has the shape the resolver expects for the kind: HTTP 200
\* with a file listing (brew) or with a constraint of the matrix (cask).
ExpectedShape ==
    /\ response.status_code = 200
    /\ CASE formula_type = "brew" -> HasListing(response.body)
         [] formula_type = "cask" ->
              /\ HasConstraint(response.body)
              /\ Constraint(response.body) \in DOMAIN support_matrix
         [] OTHER -> FALSE

\* C1: failure isolation.  Once lookups have begun nothing ends the run
\* early: whatever a lookup's outcome (the transport failing, a non-200
\* status, a 200 body of an unexpected shape), the run goes on, and the
\* record of a package whose response was a failure is Unknown or No info.
C1_FailureIsolation ==
    /\ received > 0 => pc # "exit"
    /\ (Answered /\ ~ExpectedShape) =>
           (Recorded("Unknown") \/ Recorded("No info"))

\* C2: get_status returns one record per input name, in input order, each
\* with a status of the enumeration, whatever the API answers: the
\* statuses a call has made when it ends, by returning or by raising on a
\* response, are one per name.
C2_OneRecordPerName ==
    /\ (pc = "get_status" /\ formula_type = "cask") =>
           RecordsFor(result, core_formulae)
    /\ pc \in {"display", "export", "done"} =>
           RecordsFor(result, core_formulae \o cask_formulae)
    /\ (pc = "exit" /\ Answered) => RecordsFor(statuses, Formulae)

\* C3: the support matrix follows the order of macOS releases.  For a cask
\* whose constraint ">=V" is a key of the matrix, the resolved set is
\* exactly the identifiers --macos-version accepts whose release is at
\* least V, and the cask is Supported exactly when the target is one.
C3_MatrixFollowsOsOrder ==
    (/\ AnsweredOk("cask")
     /\ HasConstraint(response.body)
     /\ Constraint(response.body) \in DOMAIN support_matrix) =>
        /\ supported_versions = Resolved(Satisfying(Constraint(response.body)))
        /\ Recorded(IF macos_version \in Satisfying(Constraint(response.body))
                    THEN "Supported" ELSE "Unsupported")

\* C4: get_formulae returns only names of lines that declare a package of
\* the requested kind: each returned name is the quoted token of a line
\* whose first word is exactly the kind's keyword.
C4_OnlyDeclaredNames ==
    /\ OnlyFrom(core_formulae, DeclaredIn(brewfile, "brew"))
    /\ OnlyFrom(cask_formulae, DeclaredIn(brewfile, "cask"))
    /\ pc = "returned" => OnlyFrom(returned, DeclaredIn(brewfile, type_arg))

\* C5 as stated: lookups are issued in the order of the Brewfile's lines,
\* whatever their kinds.
C5_LineOrder == IsPrefix(requests, LookupsInLineOrder(brewfile))

\* C5 as amended: lookups are issued one at a time, every brew lookup
\* before every cask lookup, and within a kind in the order of the lines;
\* a request is sent only when every earlier one has ended.
C5_KindThenLineOrder ==
    /\ IsPrefix(requests,
                OfKind(LookupsInLineOrder(brewfile), "brew")
                    \o OfKind(LookupsInLineOrder(brewfile), "cask"))
    /\ Len(requests) = received + (IF in_flight THEN 1 ELSE 0)

\* A cask line precedes a brew line and both have been looked up.
C5_Witness ==
    /\ brewfile = <<LineCaskB, LineBrewA>>
    /\ Len(requests) = 2
    /\ received = 2
    /\ requests[1].base = metadata["brew"]
    /\ requests[2].base = metadata["cask"]

\* C6: a fatal error (the Brewfile does not exist, or get_formulae is asked
\* for an unsupported kind) ends the run with exit code 1 at its first
\* step, with no request sent, no table printed and no export file
\* written; and a run that sys.exit ended has done none of these.
C6_FatalBeforeNetwork ==
    LET fatal == \/ entry = "cli" /\ path_kind = "missing"
                 \/ entry = "get_formulae" /\ type_arg \notin DOMAIN metadata
        quiet == /\ requests = <<>>
                 /\ received = 0
                 /\ ~in_flight
                 /\ ~stdout.written
                 /\ ~csv_file.written
    IN /\ fatal => /\ quiet
                   /\ pc # entry => (pc = "exit" /\ exit_code = 1)
       /\ exception = "SystemExit" => (quiet /\ exit_code = 1)

\* cli has exited on a missing Brewfile.
C6_Witness ==
    /\ entry = "cli"
    /\ path_kind = "missing"
    /\ pc = "exit"
    /\ exit_code = 1

\* get_formulae has exited on an unsupported kind.
C6_WitnessKind ==
    /\ entry = "get_formulae"
    /\ type_arg = "tap"
    /\ path_kind = "file"
    /\ pc = "exit"
    /\ exit_code = 1

\* C7: a formula answered with HTTP 200.  With a stable-bottle file listing
\* in the body the resolved set is the listing's key set and the status is
\* Supported when the target is a key, Unsupported when not (an empty
\* listing included); with the bottle, stable or files field lacking the
\* status is No info.
C7_FormulaClassification ==
    AnsweredOk("brew") =>
        /\ HasListing(response.body) =>
             /\ supported_versions =
                    Resolved(DOMAIN Listing(response.body).v.d)
             /\ Recorded(IF macos_version \in DOMAIN Listing(response.body).v.d
                         THEN "Supported" ELSE "Unsupported")
        /\ Listing(response.body).at = "absent" => Recorded("No info")

\* A formula with a bottle for the target has been recorded Supported.
C7_Witness ==
    /\ AnsweredOk("brew")
    /\ HasListing(response.body)
    /\ macos_version \in DOMAIN Listing(response.body).v.d
    /\ Recorded("Supported")

\* C8: a cask answered with HTTP 200.  With a constraint that is a key of
\* the matrix the resolved set is the matrix's value and the status is
\* Supported when the target is in it, Unsupported when not; with the
\* constraint absent from the body, or no key of the matrix, the status is
\* No info.
C8_CaskClassification ==
    AnsweredOk("cask") =>
        /\ (/\ HasConstraint(response.body)
            /\ Constraint(response.body) \in DOMAIN support_matrix) =>
             /\ supported_versions =
                    Resolved(Range(support_matrix[Constraint(response.body)]))
             /\ Recorded(IF macos_version \in
                              Range(support_matrix[Constraint(response.body)])
                         THEN "Supported" ELSE "Unsupported")
        /\ (\/ MinimumList(response.body).at = "absent"
            \/ /\ HasConstraint(response.body)
               /\ Constraint(response.body) \notin DOMAIN support_matrix) =>
             Recorded("No info")

\* Scenario 2: a cask that needs 10.14, checked for sierra, is Unsupported.
C8_Witness ==
    /\ AnsweredOk("cask")
    /\ HasConstraint(response.body)
    /\ Constraint(response.body) = ">=10.14"
    /\ macos_version = "sierra"
    /\ Recorded("Unsupported")

\* C9: a response with any status other than 200 gives Unknown whatever
\* its body, which is neither parsed nor resolved, and the loop goes on: the
\* next formula's request can be sent.
C9_NonOkIsUnknown ==
    (Answered /\ response.status_code # 200) =>
        /\ Recorded("Unknown")
        /\ ~parsed
        /\ ~supported_versions.known
        /\ (i <= Len(Formulae) /\ ~in_flight) => ENABLED Request

\* Scenario 3, and the run going on: after a 404 the next request is out.
C9_Witness ==
    /\ Answered
    /\ response.status_code = 404
    /\ Recorded("Unknown")
    /\ in_flight
    /\ Len(requests) = received + 1

\* C10: in a run that completes the export file is written exactly when
\* --export is set; it holds the header and then one row per package the
\* Brewfile declares, the rows of the printed table in the same order; and
\* it is written only once every lookup has ended and the table is printed.
C10_ExportOneRowPerPackage ==
    /\ csv_file.written =>
           /\ stdout.written
           /\ pc = "done"
           /\ ~in_flight
           /\ received = Len(requests)
    /\ pc = "done" =>
           /\ csv_file.written <=> export_flag
           /\ csv_file.written =>
                /\ Head(csv_file.rows) = csv_header
                /\ Tail(csv_file.rows) = Tail(stdout.rows)
                /\ Len(csv_file.rows) - 1 =
                       Len(DeclaredIn(brewfile, "brew"))
                           + Len(DeclaredIn(brewfile, "cask"))

====
